---- MODULE Spec2Model ----
(***************************************************************************)
(* Model of process_csv.py: build_crime_data_class (raw and processed      *)
(* mode), create_csv, get_vancouver_data and check_date_in_range, together *)
(* with the CrimeData store (crime_data.py) they drive.                    *)
(*                                                                         *)
(* Values.  A DataFrame cell is a string, an integer or a float.  Strings  *)
(* are TLA+ strings; the float NaN that pandas.read_csv gives a missing    *)
(* cell is the value NaN below (read_csv also turns the text "nan" into    *)
(* that float, so no string cell ever holds it).  A number that can be an  *)
(* int or a float (the occurrence count) is a record [n, t] with t the     *)
(* Python type.  Years and months are integers.                            *)
(***************************************************************************)
EXTENDS Integers, Sequences, FiniteSets, TLC

\* ------------------------------------------------------------- bounds
NumMonths == 3
MaxRows == 2
MaxCount == 1
MaxCalls == 2
NumYears == 2

\* ---------------------------------------------------- program constants
BaseYear == 2003
BaseMonth == 11

\* ------------------------------------------------------------- values
NaN == "nan"
isinstance_str(v) == v # NaN

Int0 == [n |-> 0, t |-> "int"]
Int1 == [n |-> 1, t |-> "int"]
isinstance_int(x) == x.t = "int"
\* Python's int + int is an int, anything with a float is a float.
Add(a, b) == [n |-> a.n + b.n,
              t |-> IF a.t = "float" \/ b.t = "float" THEN "float" ELSE "int"]

EmptyDict == [x \in {} |-> x]
Put(d, k, v) == [x \in (DOMAIN d) \cup {k} |-> IF x = k THEN v ELSE d[x]]
Get(d, k, default) == IF k \in DOMAIN d THEN d[k] ELSE default

\* ------------------------------------------------- check_date_in_range
\* datetime.date(year=, month=, day=1)
date(year_month) == <<year_month[1], year_month[2], 1>>

\* datetime.date's <=: year first, then month, then day.
date_le_strict_bug(a, b) ==
    \/ a[1] < b[1]
    \/ a[1] = b[1] /\ a[2] < b[2]
    \/ a[1] = b[1] /\ a[2] = b[2] /\ a[3] < b[3]

date_le_month_only_bug(a, b) == a[2] <= b[2]

date_le(a, b) ==
    \/ a[1] < b[1]
    \/ a[1] = b[1] /\ a[2] < b[2]
    \/ a[1] = b[1] /\ a[2] = b[2] /\ a[3] <= b[3]

check_date_in_range_or_bug(start_year_month, end_year_month, date_year_month) ==
    date_le(date(start_year_month), date(date_year_month))
        \/ date_le(date(date_year_month), date(end_year_month))

check_date_in_range(start_year_month, end_year_month, date_year_month) ==
    LET start == date(start_year_month)
        end == date(end_year_month)
        d == date(date_year_month)
    IN  date_le(start, d) /\ date_le(d, end)

\* ------------------------------------------------------------ CrimeData
\* crime_occurrences[crime][neighbourhood][year][month] -> count
increment_crime(co, crime, neighbourhood, year, month, amount) ==
    LET by_crime == Get(co, crime, EmptyDict)
        by_nbhd == Get(by_crime, neighbourhood, EmptyDict)
        by_year == Get(by_nbhd, year, EmptyDict)
        old == Get(by_year, month, Int0)
    IN  Put(co, crime,
            Put(by_crime, neighbourhood,
                Put(by_nbhd, year,
                    Put(by_year, month, Add(old, amount)))))

\* December of year Y is followed by January of year Y+1.
next_month(ym) == IF ym[2] = 12 THEN <<ym[1] + 1, 1>> ELSE <<ym[1], ym[2] + 1>>

\* The months from cur to end_year_month inclusive, in calendar order.
RECURSIVE month_range(_, _)
month_range(cur, end_year_month) ==
    IF date_le(date(cur), date(end_year_month))
    THEN <<cur>> \o month_range(next_month(cur), end_year_month)
    ELSE <<>>

\* One series (the [year][month] mapping of a pair) with a zero entry added
\* for every month of months it lacks.
RECURSIVE fill_series(_, _)
fill_series(occurrences, months) ==
    IF months = <<>> THEN occurrences
    ELSE LET ym == Head(months)
             by_year == Get(occurrences, ym[1], EmptyDict)
             old == Get(by_year, ym[2], Int0)
         IN  fill_series(Put(occurrences, ym[1], Put(by_year, ym[2], Add(old, Int0))),
                         Tail(months))

\* A fill that counts each month of the range once more on every call.
fill_gaps_counting_bug(co, start_year_month, end_year_month) ==
    [c \in DOMAIN co |->
        [nb \in DOMAIN co[c] |->
            LET filled == fill_series(co[c][nb],
                                      month_range(start_year_month, end_year_month))
            IN  [y \in DOMAIN filled |->
                    [m \in DOMAIN filled[y] |->
                        IF check_date_in_range(start_year_month, end_year_month, <<y, m>>)
                        THEN Add(filled[y][m], Int1) ELSE filled[y][m]]]]]

fill_gaps(co, start_year_month, end_year_month) ==
    [c \in DOMAIN co |->
        [nb \in DOMAIN co[c] |->
            fill_series(co[c][nb], month_range(start_year_month, end_year_month))]]

\* --------------------------------------------------------------- rows
\* row[k]: the cell at 0-based column position k.
cell(row, k) == row[k + 1]

\* The call of create_csv's docstring: the raw schema
\* TYPE, YEAR, MONTH, DAY, HOUR, MINUTE, HUNDRED_BLOCK, NEIGHBOURHOOD.
RawCols == [col_num_crime_type |-> 0, col_num_year |-> 1, col_num_month |-> 2,
            col_num_neighbourhood |-> 7]

ProcessedCols_year_month_swapped_bug ==
    [col_num_crime_type |-> 0, col_num_year |-> 3, col_num_month |-> 2,
     col_num_neighbourhood |-> 1, col_num_occurrences |-> 4]

\* get_vancouver_data's column positions.
ProcessedCols == [col_num_crime_type |-> 0, col_num_year |-> 2, col_num_month |-> 3,
                  col_num_neighbourhood |-> 1, col_num_occurrences |-> 4]

\* ------------------------------------------------ build_crime_data_class
raw_row_unfiltered_bug(co, row, cols, start_year_month, end_year_month) ==
    increment_crime(co, cell(row, cols.col_num_crime_type),
                    cell(row, cols.col_num_neighbourhood),
                    cell(row, cols.col_num_year), cell(row, cols.col_num_month), Int1)

raw_row_decrement_bug(co, row, cols, start_year_month, end_year_month) ==
    IF check_date_in_range(start_year_month, end_year_month,
                           <<cell(row, cols.col_num_year), cell(row, cols.col_num_month)>>)
    THEN increment_crime(co, cell(row, cols.col_num_crime_type),
                         cell(row, cols.col_num_neighbourhood),
                         cell(row, cols.col_num_year), cell(row, cols.col_num_month),
                         [n |-> -1, t |-> "int"])
    ELSE co

\* The body of the raw-mode loop: one row.
raw_row(co, row, cols, start_year_month, end_year_month) ==
    IF check_date_in_range(start_year_month, end_year_month,
                           <<cell(row, cols.col_num_year), cell(row, cols.col_num_month)>>)
    THEN increment_crime(co, cell(row, cols.col_num_crime_type),
                         cell(row, cols.col_num_neighbourhood),
                         cell(row, cols.col_num_year), cell(row, cols.col_num_month), Int1)
    ELSE co

processed_row_count_one_bug(co, row, cols) ==
    increment_crime(co, cell(row, cols.col_num_crime_type),
                    cell(row, cols.col_num_neighbourhood),
                    cell(row, cols.col_num_year), cell(row, cols.col_num_month), Int1)

\* The body of the processed-mode loop: one row.
processed_row(co, row, cols) ==
    increment_crime(co, cell(row, cols.col_num_crime_type),
                    cell(row, cols.col_num_neighbourhood),
                    cell(row, cols.col_num_year), cell(row, cols.col_num_month),
                    cell(row, cols.col_num_occurrences))

raw_after_loop_no_fill_bug(co, start_year_month, end_year_month) == co

\* What raw mode does once the rows are exhausted.
raw_after_loop(co, start_year_month, end_year_month) ==
    fill_gaps(co, start_year_month, end_year_month)

RECURSIVE raw_loop(_, _, _, _, _)
raw_loop(co, rows, cols, start_year_month, end_year_month) ==
    IF rows = <<>> THEN co
    ELSE raw_loop(raw_row(co, Head(rows), cols, start_year_month, end_year_month),
                  Tail(rows), cols, start_year_month, end_year_month)

RECURSIVE processed_loop(_, _, _)
processed_loop(co, rows, cols) ==
    IF rows = <<>> THEN co
    ELSE processed_loop(processed_row(co, Head(rows), cols), Tail(rows), cols)

\* The whole call, on the rows pandas.read_csv(path) gave.
build_crime_data_class(rows, cols, reading_processed_data_, start_year_month, end_year_month) ==
    IF ~reading_processed_data_
    THEN raw_after_loop(raw_loop(EmptyDict, rows, cols, start_year_month, end_year_month),
                        start_year_month, end_year_month)
    ELSE processed_loop(EmptyDict, rows, cols)

\* ------------------------------------------------------------ create_csv
\* The (crime, neighbourhood, year, month) paths of the four nested loops.
leaf_keys(co) ==
    UNION { UNION { UNION { { <<c, nb, y, m>> : m \in DOMAIN co[c][nb][y] }
                            : y \in DOMAIN co[c][nb] }
                    : nb \in DOMAIN co[c] }
            : c \in DOMAIN co }

leaf(co, k) == co[k[1]][k[2]][k[3]][k[4]]

\* The isinstance test; year and month are integers in every store of this
\* model.
conforms_neighbourhood_unchecked_bug(co, k) ==
    isinstance_str(k[1]) /\ isinstance_int(leaf(co, k))

conforms(co, k) ==
    isinstance_str(k[1]) /\ isinstance_str(k[2]) /\ isinstance_int(leaf(co, k))

RECURSIVE in_iteration_order(_)
in_iteration_order(S) ==
    IF S = {} THEN <<>>
    ELSE LET x == CHOOSE x \in S : TRUE IN <<x>> \o in_iteration_order(S \ {x})

RECURSIVE formatted_rows(_, _)
formatted_rows(co, keys) ==
    IF keys = <<>> THEN <<>>
    ELSE LET k == Head(keys)
             rest == formatted_rows(co, Tail(keys))
         IN  IF conforms(co, k)
             THEN <<<<k[1], k[2], k[3], k[4], leaf(co, k).n>>>> \o rest
             ELSE rest

\* formatted_dict as the DataFrame's rows: columns crime_type, neighbourhood,
\* year, month, count.
formatted_dict(co) == formatted_rows(co, in_iteration_order(leaf_keys(co)))

\* ---------------------------------------------------- the file's text
\* An integer as its decimal digits, and back.
RECURSIVE int_to_text(_)
int_to_text(i) == IF i < 10 THEN <<i>> ELSE int_to_text(i \div 10) \o <<i % 10>>

RECURSIVE text_to_int(_)
text_to_int(ds) ==
    IF ds = <<>> THEN 0
    ELSE 10 * text_to_int(SubSeq(ds, 1, Len(ds) - 1)) + ds[Len(ds)]

\* The texts pandas.read_csv reads as a missing value.
na_values == {"", "NA", "N/A", "NULL", "NaN", "nan", "null", "None", "n/a", "#N/A"}
text_to_str(s) == IF s \in na_values THEN NaN ELSE s

\* DataFrame.to_csv(index=False): one line of text per row.
to_csv(frame) ==
    [i \in 1..Len(frame) |->
        <<frame[i][1], frame[i][2], int_to_text(frame[i][3]),
          int_to_text(frame[i][4]), int_to_text(frame[i][5])>>]

\* pandas.read_csv of such a file: string columns, then three int64 columns.
read_csv(lines) ==
    [i \in 1..Len(lines) |->
        <<text_to_str(lines[i][1]), text_to_str(lines[i][2]), text_to_int(lines[i][3]),
          text_to_int(lines[i][4]), [n |-> text_to_int(lines[i][5]), t |-> "int"]>>]

create_csv(co) == to_csv(formatted_dict(co))

get_vancouver_data(lines) ==
    build_crime_data_class(read_csv(lines), ProcessedCols, TRUE, <<>>, <<>>)

\* ------------------------------------------------------------- inputs
\* The i-th month counted from (BaseYear, BaseMonth).
month_at(i) ==
    LET idx == BaseYear * 12 + (BaseMonth - 1) + i
    IN  <<idx \div 12, (idx % 12) + 1>>

Dates == { month_at(i) : i \in 0..(NumMonths - 1) }
CrimeTypes == {"Theft", "Mischief"}
Neighbourhoods == {"X", NaN}

RawRows ==
    { <<c, d[1], d[2], 1, 0, 0, "BLOCK", nb>> :
          c \in CrimeTypes, d \in Dates, nb \in Neighbourhoods }

ProcessedRows(dtype) ==
    { <<c, nb, d[1], d[2], [n |-> k, t |-> dtype]>> :
          c \in CrimeTypes, nb \in Neighbourhoods, d \in Dates, k \in {0, MaxCount} }

None == <<>>

\* ---------------------------------------------------------------- state
VARIABLES
    reading_processed_data,
    start_year_month,
    end_year_month,
    occ_dtype,
    pre_processed_data,
    post_processing_data,
    pc,
    csv_file,
    vancouver_data,
    date_year_month,
    in_range,
    calls,
    before_fill,
    first_fill

vars == <<reading_processed_data, start_year_month, end_year_month, occ_dtype,
          pre_processed_data, post_processing_data, pc, csv_file, vancouver_data,
          date_year_month, in_range, calls, before_fill, first_fill>>

args == <<reading_processed_data, start_year_month, end_year_month, occ_dtype>>
range_call == <<date_year_month, in_range>>
fill_calls == <<calls, before_fill, first_fill>>

NoRangeCall == date_year_month = None /\ in_range = FALSE
NoFillCalls == calls = 0 /\ before_fill = EmptyDict /\ first_fill = EmptyDict
NoPipeline ==
    /\ occ_dtype = "int"
    /\ pre_processed_data = <<>>
    /\ csv_file = <<>>
    /\ vancouver_data = EmptyDict

\* ------------------------------------------- the pipeline (Spec)
Init ==
    /\ reading_processed_data \in BOOLEAN
    /\ IF reading_processed_data
       THEN /\ start_year_month = None
            /\ end_year_month = None
            /\ occ_dtype \in {"int", "float"}
       ELSE /\ start_year_month \in Dates
            /\ end_year_month \in Dates
            /\ occ_dtype = "int"
    /\ pre_processed_data = <<>>
    /\ post_processing_data = EmptyDict
    /\ pc = "iterrows"
    /\ csv_file = <<>>
    /\ vancouver_data = EmptyDict
    /\ NoRangeCall
    /\ NoFillCalls

\* One pass of the raw-mode loop.
RawRow ==
    /\ pc = "iterrows"
    /\ ~reading_processed_data
    /\ Len(pre_processed_data) < MaxRows
    /\ \E row \in RawRows :
          /\ pre_processed_data' = Append(pre_processed_data, row)
          /\ post_processing_data' =
                 raw_row(post_processing_data, row, RawCols,
                         start_year_month, end_year_month)
    /\ UNCHANGED <<args, pc, csv_file, vancouver_data, range_call, fill_calls>>

\* The rows are exhausted: fill_gaps, return.
RawReturn ==
    /\ pc = "iterrows"
    /\ ~reading_processed_data
    /\ post_processing_data' =
           raw_after_loop(post_processing_data, start_year_month, end_year_month)
    /\ pc' = "returned"
    /\ UNCHANGED <<args, pre_processed_data, csv_file, vancouver_data, range_call,
                   fill_calls>>

\* One pass of the processed-mode loop.
ProcessedRow ==
    /\ pc = "iterrows"
    /\ reading_processed_data
    /\ Len(pre_processed_data) < MaxRows
    /\ \E row \in ProcessedRows(occ_dtype) :
          /\ pre_processed_data' = Append(pre_processed_data, row)
          /\ post_processing_data' =
                 processed_row(post_processing_data, row, ProcessedCols)
    /\ UNCHANGED <<args, pc, csv_file, vancouver_data, range_call, fill_calls>>

ProcessedReturn ==
    /\ pc = "iterrows"
    /\ reading_processed_data
    /\ pc' = "returned"
    /\ UNCHANGED <<args, pre_processed_data, post_processing_data, csv_file,
                   vancouver_data, range_call, fill_calls>>

\* create_csv(df)
CreateCsv ==
    /\ pc = "returned"
    /\ csv_file' = create_csv(post_processing_data)
    /\ pc' = "exported"
    /\ UNCHANGED <<args, pre_processed_data, post_processing_data, vancouver_data,
                   range_call, fill_calls>>

\* get_vancouver_data()
GetVancouverData ==
    /\ pc = "exported"
    /\ vancouver_data' = get_vancouver_data(csv_file)
    /\ pc' = "reloaded"
    /\ UNCHANGED <<args, pre_processed_data, post_processing_data, csv_file,
                   range_call, fill_calls>>

Next ==
    \/ RawRow
    \/ RawReturn
    \/ ProcessedRow
    \/ ProcessedReturn
    \/ CreateCsv
    \/ GetVancouverData

Spec == Init /\ [][Next]_vars

\* ------------------------------- check_date_in_range alone (SpecRange)
Years == BaseYear..(BaseYear + NumYears - 1)
YearMonths == Years \X (1..12)

InitRange ==
    /\ reading_processed_data = FALSE
    /\ start_year_month \in YearMonths
    /\ end_year_month \in YearMonths
    /\ date_year_month \in YearMonths
    /\ in_range = FALSE
    /\ post_processing_data = EmptyDict
    /\ pc = "call"
    /\ NoPipeline
    /\ NoFillCalls

CheckDateInRange ==
    /\ pc = "call"
    /\ in_range' = check_date_in_range(start_year_month, end_year_month, date_year_month)
    /\ pc' = "checked"
    /\ UNCHANGED <<args, pre_processed_data, post_processing_data, csv_file,
                   vancouver_data, date_year_month, fill_calls>>

NextRange == CheckDateInRange

SpecRange == InitRange /\ [][NextRange]_vars

\* ------------------------------------ the store alone (SpecFill)
InitFill ==
    /\ reading_processed_data = FALSE
    /\ start_year_month = None
    /\ end_year_month = None
    /\ post_processing_data = EmptyDict
    /\ pc = "store"
    /\ NoPipeline
    /\ NoRangeCall
    /\ NoFillCalls

\* increment_crime(crime, neighbourhood, year, month, amount)
IncrementCrime ==
    /\ pc = "store"
    /\ calls < MaxCalls
    /\ \E c \in CrimeTypes, nb \in Neighbourhoods, d \in Dates, amount \in {Int0, Int1} :
          post_processing_data' =
              increment_crime(post_processing_data, c, nb, d[1], d[2], amount)
    /\ calls' = calls + 1
    /\ UNCHANGED <<args, pre_processed_data, pc, csv_file, vancouver_data, range_call,
                   before_fill, first_fill>>

\* fill_gaps(start_year_month, end_year_month), a first time
FillGaps ==
    /\ pc = "store"
    /\ \E s \in Dates, e \in Dates :
          /\ start_year_month' = s
          /\ end_year_month' = e
          /\ post_processing_data' = fill_gaps(post_processing_data, s, e)
    /\ before_fill' = post_processing_data
    /\ pc' = "filled"
    /\ UNCHANGED <<reading_processed_data, occ_dtype, pre_processed_data, csv_file,
                   vancouver_data, range_call, calls, first_fill>>

\* ... and once more with the same range
FillGapsAgain ==
    /\ pc = "filled"
    /\ first_fill' = post_processing_data
    /\ post_processing_data' =
           fill_gaps(post_processing_data, start_year_month, end_year_month)
    /\ pc' = "refilled"
    /\ UNCHANGED <<args, pre_processed_data, csv_file, vancouver_data, range_call,
                   calls, before_fill>>

NextFill ==
    \/ IncrementCrime
    \/ FillGaps
    \/ FillGapsAgain

SpecFill == InitFill /\ [][NextFill]_vars

\* =============================================================== claims
\* The calendar position of a (year, month): months counted from year 0.
month_index(ym) == ym[1] * 12 + (ym[2] - 1)
index_month(i) == <<i \div 12, (i % 12) + 1>>
between(s, e, d) == month_index(s) <= month_index(d) /\ month_index(d) <= month_index(e)

has_pair(co, c, nb) == c \in DOMAIN co /\ nb \in DOMAIN co[c]
has_leaf(co, c, nb, ym) ==
    /\ has_pair(co, c, nb)
    /\ ym[1] \in DOMAIN co[c][nb]
    /\ ym[2] \in DOMAIN co[c][nb][ym[1]]

\* The raw schema's fields of an input row.
raw_key(row) == <<row[1], row[8], row[2], row[3]>>
raw_pair(row) == <<row[1], row[8]>>
raw_date(row) == <<row[2], row[3]>>
\* The processed schema's.
processed_key(row) == <<row[1], row[2], row[3], row[4]>>

raw_call_returned == ~reading_processed_data /\ pc \in {"returned", "exported", "reloaded"}
processed_call_returned ==
    reading_processed_data /\ pc \in {"returned", "exported", "reloaded"}

\* The input rows of the raw call that count for key k.
rows_counted(k) ==
    { i \in 1..Len(pre_processed_data) :
          /\ raw_key(pre_processed_data[i]) = k
          /\ between(start_year_month, end_year_month, raw_date(pre_processed_data[i])) }

\* C1: after a raw-mode build over [start, end], every pair present in the
\* store has an entry for every month from start to end, year boundaries
\* included.
C1_DenseSeries ==
    raw_call_returned =>
        \A c \in DOMAIN post_processing_data :
            \A nb \in DOMAIN post_processing_data[c] :
                \A i \in month_index(start_year_month)..month_index(end_year_month) :
                    has_leaf(post_processing_data, c, nb, index_month(i))

\* A raw build whose range runs from a December into the next January, with a
\* pair seen only in December whose January entry was filled in.
C1_Witness ==
    /\ raw_call_returned
    /\ start_year_month[2] = 12
    /\ end_year_month = <<start_year_month[1] + 1, 1>>
    /\ Len(pre_processed_data) = 1
    /\ raw_date(pre_processed_data[1]) = start_year_month
    /\ has_leaf(post_processing_data, "Theft", "X", end_year_month)
    /\ post_processing_data["Theft"]["X"][end_year_month[1]][1].n = 0

\* C2: after a raw-mode build, each leaf holds the number of input rows with
\* its key and a date inside the range (0 for a gap-filled month), every
\* such row has its leaf, and rows outside the range count nowhere; the
\* count is a function of the rows as a set of positions, not of their order.
C2_RawCounts ==
    raw_call_returned =>
        /\ \A k \in leaf_keys(post_processing_data) :
              /\ leaf(post_processing_data, k).n = Cardinality(rows_counted(k))
              /\ leaf(post_processing_data, k).t = "int"
        /\ \A i \in 1..Len(pre_processed_data) :
              between(start_year_month, end_year_month, raw_date(pre_processed_data[i]))
                  => raw_key(pre_processed_data[i]) \in leaf_keys(post_processing_data)

\* Two rows of one key, and a month of the range without any row.
C2_Witness ==
    /\ raw_call_returned
    /\ \E k \in leaf_keys(post_processing_data) : leaf(post_processing_data, k).n = 2
    /\ \E k \in leaf_keys(post_processing_data) : leaf(post_processing_data, k).n = 0

\* C3: after a raw-mode build a pair is in the store exactly when some input
\* row with that pair lies inside the range.
C3_NoFabricatedSeries ==
    raw_call_returned =>
        \A c \in CrimeTypes, nb \in Neighbourhoods :
            has_pair(post_processing_data, c, nb) <=>
                \E i \in 1..Len(pre_processed_data) :
                    /\ raw_pair(pre_processed_data[i]) = <<c, nb>>
                    /\ between(start_year_month, end_year_month,
                               raw_date(pre_processed_data[i]))

\* One pair densified, another whose only row is outside the range absent,
\* and the mixed pairs that never occurred absent too.
C3_Witness ==
    /\ raw_call_returned
    /\ Len(pre_processed_data) = 2
    /\ raw_pair(pre_processed_data[1]) = <<"Theft", "X">>
    /\ raw_pair(pre_processed_data[2]) = <<"Mischief", NaN>>
    /\ ~between(start_year_month, end_year_month, raw_date(pre_processed_data[2]))
    /\ has_pair(post_processing_data, "Theft", "X")
    /\ ~has_pair(post_processing_data, "Mischief", NaN)
    /\ ~has_pair(post_processing_data, "Theft", NaN)

\* C4: check_date_in_range(start, end, date) is true exactly when date lies
\* between start and end in calendar order, both bounds included.
C4_RangePredicate ==
    pc = "checked" =>
        (in_range <=> between(start_year_month, end_year_month, date_year_month))

\* (2003,12) inside (2003,11)-(2004,2).
C4_Witness ==
    /\ pc = "checked"
    /\ start_year_month = <<BaseYear, 11>>
    /\ end_year_month = <<BaseYear + 1, 2>>
    /\ date_year_month = <<BaseYear, 12>>
    /\ in_range

RECURSIVE occurrences_sum(_, _)
occurrences_sum(rows, k) ==
    IF rows = <<>> THEN 0
    ELSE (IF processed_key(Head(rows)) = k THEN Head(rows)[5].n ELSE 0)
             + occurrences_sum(Tail(rows), k)

\* C5: in processed mode the store's leaves are exactly the keys of the
\* input rows (no date filter, no gap-fill, a count of 0 still makes its
\* key), each with the sum of the rows' occurrence counts.
C5_ProcessedMode ==
    reading_processed_data =>
        /\ leaf_keys(post_processing_data) =
               { processed_key(pre_processed_data[i]) : i \in 1..Len(pre_processed_data) }
        /\ \A k \in leaf_keys(post_processing_data) :
               leaf(post_processing_data, k).n = occurrences_sum(pre_processed_data, k)

\* Two rows of one key with counts summing to 2 ...
C5_Witness ==
    /\ processed_call_returned
    /\ Len(pre_processed_data) = 2
    /\ processed_key(pre_processed_data[1]) = processed_key(pre_processed_data[2])
    /\ pre_processed_data[1][5].n = MaxCount
    /\ leaf(post_processing_data, processed_key(pre_processed_data[1])).n = 2 * MaxCount

\* The record create_csv writes for leaf k, as read back from the file.
record_of(co, k) == <<k[1], k[2], k[3], k[4], leaf(co, k)>>
well_typed(co, k) == k[1] # NaN /\ k[2] # NaN /\ leaf(co, k).t = "int"

\* C6: the exported file holds exactly one record for every leaf whose keys
\* are (str, str, int, int) and whose count is an int, and nothing else; the
\* other leaves are left out, and the store is still what the build returned.
C6_ExportConforming ==
    pc \in {"exported", "reloaded"} =>
        LET records == read_csv(csv_file)
            co == post_processing_data
        IN  /\ \A k \in leaf_keys(co) :
                   Cardinality({ i \in 1..Len(records) : records[i] = record_of(co, k) })
                       = (IF well_typed(co, k) THEN 1 ELSE 0)
            /\ \A i \in 1..Len(records) :
                   \E k \in leaf_keys(co) : records[i] = record_of(co, k)
            /\ co = build_crime_data_class(
                        pre_processed_data,
                        IF reading_processed_data THEN ProcessedCols ELSE RawCols,
                        reading_processed_data, start_year_month, end_year_month)

\* A store with a leaf under a missing neighbourhood and a well-typed leaf:
\* the file holds the second only.
C6_Witness ==
    /\ pc = "exported"
    /\ \E k \in leaf_keys(post_processing_data) : k[2] = NaN
    /\ \E k \in leaf_keys(post_processing_data) : well_typed(post_processing_data, k)
    /\ Len(csv_file) >= 1
    /\ Len(csv_file) < Cardinality(leaf_keys(post_processing_data))

\* C7: fill_gaps applied a second time with the same range changes nothing.
C7_FillGapsIdempotent ==
    pc = "refilled" => post_processing_data = first_fill

\* The first fill inserted entries across a year boundary.
C7_Witness ==
    /\ pc = "refilled"
    /\ before_fill # first_fill
    /\ start_year_month[1] < end_year_month[1]
    /\ Cardinality(leaf_keys(first_fill)) > Cardinality(leaf_keys(before_fill))

\* C8: every leaf's count is >= 0, in every state of either mode's loop,
\* after the gap-fill, and in the store read back from the export.
C8_CountsNonNegative ==
    /\ \A k \in leaf_keys(post_processing_data) : leaf(post_processing_data, k).n >= 0
    /\ \A k \in leaf_keys(vancouver_data) : leaf(vancouver_data, k).n >= 0

\* A gap-filled raw store: a counted month and a zero month.
C8_Witness ==
    /\ ~reading_processed_data
    /\ pc = "returned"
    /\ \E k \in leaf_keys(post_processing_data) : leaf(post_processing_data, k).n = 1
    /\ \E k \in leaf_keys(post_processing_data) : leaf(post_processing_data, k).n = 0

\* C9: with start later than end no row passes the range test and the
\* gap-fill inserts nothing: the raw-mode store is empty throughout and on
\* return.
C9_EmptyWhenStartAfterEnd ==
    (/\ ~reading_processed_data
     /\ pc \in {"iterrows", "returned", "exported", "reloaded"}
     /\ month_index(start_year_month) > month_index(end_year_month))
        => post_processing_data = EmptyDict

\* Rows dated at start and at end were read, and the call returned.
C9_Witness ==
    /\ raw_call_returned
    /\ month_index(start_year_month) > month_index(end_year_month)
    /\ Len(pre_processed_data) = 2
    /\ raw_date(pre_processed_data[1]) = start_year_month
    /\ raw_date(pre_processed_data[2]) = end_year_month
    /\ post_processing_data = EmptyDict

\* The store without the leaves create_csv leaves out.
exportable(co) ==
    LET crimes == { c \in DOMAIN co : c # NaN /\ \E nb \in DOMAIN co[c] : nb # NaN }
    IN  [c \in crimes |-> [nb \in { x \in DOMAIN co[c] : x # NaN } |-> co[c][nb]]]

\* C10 as stated: exporting a raw-mode store and reading the file back gives
\* the store again.
C10_RoundTripEqual ==
    (~reading_processed_data /\ pc = "reloaded") => vancouver_data = post_processing_data

\* C10 amended: exporting a raw-mode store and reading the file back gives
\* the store without the leaves whose crime type or neighbourhood is not a
\* string; zero-count entries included.
C10_RoundTripExportable ==
    (~reading_processed_data /\ pc = "reloaded")
        => vancouver_data = exportable(post_processing_data)

\* A round trip that kept a zero-count entry and dropped a missing
\* neighbourhood's series.
C10_Witness ==
    /\ ~reading_processed_data
    /\ pc = "reloaded"
    /\ has_pair(post_processing_data, "Theft", NaN)
    /\ has_pair(vancouver_data, "Theft", "X")
    /\ ~has_pair(vancouver_data, "Theft", NaN)
    /\ \E k \in leaf_keys(vancouver_data) : leaf(vancouver_data, k).n = 0

====
